---- MODULE Spec2Model ----
(***************************************************************************)
(* FlickerDB (src/core/flicker.ts) on top of TaskQueue                     *)
(* (src/utils/TaskQueue.ts).                                               *)
(*                                                                         *)
(* One step of the model is one turn of the Node.js event loop: an API     *)
(* call, or the completion callback of one filesystem request together     *)
(* with every promise continuation it triggers.  The store file and the    *)
(* temp file are sequences of tokens: the three punctuation characters     *)
(* of the on-disk object and one token per `"id":json` pair.               *)
(***************************************************************************)
EXTENDS Integers, Sequences, FiniteSets, TLC

\* ---------------------------------------------------------------- bounds
MaxCalls  == 3   \* API calls made on the handle
MaxFaults == 1   \* filesystem faults and outside deletions of the store file
ChunkToks == 2   \* tokens delivered by one 'data' event of the raw read
MaxFinds  == 2   \* find calls made in the runs that only search (FindSpec)
MaxLive   == 2   \* API calls made in the runs checked for progress (LiveSpec)
MaxHandles == 2  \* handles constructed on the path (ConstructSpec)
MaxBatch  == 3   \* records added, at once or one by one (BatchSpec)

\* ------------------------------------------------------------ data model
Data    == {"a", "b"}          \* serializable records
BadData == "bad"               \* a record on which the serializer throws

VARIABLES
  file,        \* the store file: [present, toks]
  temp,        \* the temp file (#tempFilePath): [present, toks]
  queue,       \* TaskQueue.#queue: call numbers of the waiting tasks
  isLocked,    \* TaskQueue.#isLocked
  running,     \* one record per active #processQueue loop: its current task
  calls,       \* every API call made so far, with its future and its history
  nextId,      \* the ids randomUUID() has handed out so far + 1
  faults,      \* faults injected so far
  uncaught,    \* an exception was thrown inside a stream 'error' listener
  crashed,     \* the process ended on that uncaught exception
  startOrder,  \* call numbers in the order their tasks began executing
  lingering    \* write streams on the temp path that were told to end by a
               \* failed task and have not finished yet

vars == <<file, temp, queue, isLocked, running, calls, nextId, faults,
          uncaught, crashed, startOrder, lingering>>

\* ------------------------------------------------------- on-disk format
Tok(k, id, json) == [k |-> k, id |-> id, json |-> json]
LB    == Tok("{", 0, "")
RB    == Tok("}", 0, "")
COMMA == Tok(",", 0, "")
JUNK  == Tok("junk", 0, "")    \* a pair cut in the middle
EntryTok(id, json) == Tok("entry", id, json)

\* characters of one token; an id is a 36 character UUID in quotes plus ':'
TokLen(t) == IF t.k = "entry" THEN 39 + Len(t.json) ELSE 1

RECURSIVE TotalLen(_)
TotalLen(toks) ==
  IF toks = <<>> THEN 0 ELSE TokLen(Head(toks)) + TotalLen(Tail(toks))

Missing == [present |-> FALSE, toks |-> <<>>]
Content(toks) == [present |-> TRUE, toks |-> toks]

\* JSON.stringify / JSON parse of the record values used here
JsonText(d) == "'" \o d \o "'"
JsonValue(text) == CHOOSE d \in Data : JsonText(d) = text

CanStringify(d) == d \in Data
Entry(id, data) == [id |-> id, data |-> data]

\* `"${id}":${jsonData}` pairs joined by ','
RECURSIVE JoinEntries(_)
JoinEntries(es) ==
  IF es = <<>> THEN <<>>
  ELSE IF Len(es) = 1 THEN <<EntryTok(es[1].id, JsonText(es[1].data))>>
  ELSE <<EntryTok(es[1].id, JsonText(es[1].data)), COMMA>> \o JoinEntries(Tail(es))

Render(es) == <<LB>> \o JoinEntries(es) \o <<RB>>

\* StreamObject.withParser(): the pairs decoded before the end of the text or
\* the first malformed place, and whether the text was one complete object.
\* st: "start", "first" (after '{'), "sep" (after a pair), "pair" (after ','),
\* "done" (after '}')
RECURSIVE ParseFrom(_, _, _, _)
ParseFrom(toks, i, st, acc) ==
  IF i > Len(toks) THEN [ok |-> st = "done", entries |-> acc]
  ELSE LET t == toks[i] IN
    CASE st = "start" /\ t.k = "{" -> ParseFrom(toks, i + 1, "first", acc)
      [] st = "first" /\ t.k = "}" -> ParseFrom(toks, i + 1, "done", acc)
      [] st \in {"first", "pair"} /\ t.k = "entry" ->
           ParseFrom(toks, i + 1, "sep", Append(acc, Entry(t.id, JsonValue(t.json))))
      [] st = "sep" /\ t.k = "," -> ParseFrom(toks, i + 1, "pair", acc)
      [] st = "sep" /\ t.k = "}" -> ParseFrom(toks, i + 1, "done", acc)
      [] OTHER -> [ok |-> FALSE, entries |-> acc]

Parse(toks) == ParseFrom(toks, 1, "start", <<>>)
WellFormed(f) == Parse(f.toks).ok
Entries(f) == Parse(f.toks).entries


\* ------------------------------------------------- caller-supplied inputs
\* A matcher (remove, find) or a modifier (update): kind "all", "none",
\* "data" (acts on the entries whose data is d), "throw" (throws on them);
\* v is the value a modifier returns for the entries it acts on.  Kind "id"
\* is findById's matcher `({ id: matcherId }) => matcherId === id`.
Fn(kind, d, v) == [kind |-> kind, d |-> d, v |-> v, id |-> 0]
NoFn == Fn("", "", "")
ById(id) == [Fn("id", "", "") EXCEPT !.id = id]
\* updateById's: ({ id: matcherId, data }) =>
\*   matcherId === id ? modifier(data) : undefined, modifier returning v
ModById(id, v) == [Fn("id", "", v) EXCEPT !.id = id]

Matchers  == {Fn("none", "", ""), Fn("data", "a", ""), Fn("throw", "b", "")}
Modifiers == {Fn("none", "", ""), Fn("data", "a", "b"), Fn("data", "b", BadData),
              Fn("throw", "b", "")}

\* matcher(entry): "yes", "no" or "throw"
Match(m, e) ==
  CASE m.kind = "all"   -> "yes"
    [] m.kind = "none"  -> "no"
    [] m.kind = "data"  -> IF e.data = m.d THEN "yes" ELSE "no"
    [] m.kind = "throw" -> IF e.data = m.d THEN "throw" ELSE "no"
    [] m.kind = "id"    -> IF e.id = m.id THEN "yes" ELSE "no"

\* fn(entry): the replacement value, "undefined" or "throw"
Modify(m, e) ==
  CASE m.kind = "none"  -> "undefined"
    [] m.kind = "all"   -> m.v
    [] m.kind = "data"  -> IF e.data = m.d THEN m.v ELSE "undefined"
    [] m.kind = "throw" -> IF e.data = m.d THEN "throw" ELSE "undefined"
    [] m.kind = "id"    -> IF e.id = m.id THEN m.v ELSE "undefined"

\* the record lists passed to add
AddInputs == {<<>>, <<"a">>, <<"b", "a">>, <<"a", BadData>>}

\* ----------------------------------------------------------------- futures
\* kind says what a resolved future holds: "ids" (ids), "count" (n), "found"
\* (entries and wereThereMatchesLeft), "undefined" or "null"
Pending == [st |-> "pending", kind |-> "", ids |-> <<>>, n |-> 0, err |-> "",
            entries |-> <<>>, left |-> FALSE]

\* resolve / reject of a promise: only the first settlement counts
Resolve(f, kind, ids, n) ==
  IF f.st = "pending"
  THEN [Pending EXCEPT !.st = "resolved", !.kind = kind, !.ids = ids, !.n = n]
  ELSE f
Reject(f, e) ==
  IF f.st = "pending"
  THEN [Pending EXCEPT !.st = "rejected", !.err = e]
  ELSE f

\* find: resolve(undefined) when nothing was retained, else
\* resolve({ entries, wereThereMatchesLeft })
FindResult(f, entries, left) ==
  IF f.st # "pending" THEN f
  ELSE IF entries = <<>> THEN Resolve(f, "undefined", <<>>, 0)
  ELSE [Pending EXCEPT !.st = "resolved", !.kind = "found",
                       !.entries = entries, !.left = left]

\* (mutation) resolve(removedEntries) without the test for 0
CountAlways(f, n) == Resolve(f, "count", <<>>, n)

\* remove / update resolve with the count, or with undefined when it is 0
CountResult(f, n) ==
  IF n = 0 THEN Resolve(f, "undefined", <<>>, 0) ELSE Resolve(f, "count", <<>>, n)

\* -------------------------------------------------------- rewrite passes
\* #readStreamParsing + the remove callback: written is what tempFile.write
\* has received, prev is prevFormattedEntry, n is removedEntries.
RECURSIVE RemoveScan(_, _, _, _, _)
RemoveScan(es, m, written, prev, n) ==
  IF es = <<>> THEN [err |-> "", written |-> written, prev |-> prev, n |-> n]
  ELSE LET e == Head(es)
           r == Match(m, e)
       IN CASE r = "throw" -> [err |-> "MatcherError", written |-> written, prev |-> prev, n |-> n]
            [] r = "yes"   -> RemoveScan(Tail(es), m, written, prev, n + 1)
            [] OTHER ->
                 IF ~CanStringify(e.data)
                 THEN [err |-> "SERIALIZATION_ERROR", written |-> written, prev |-> prev, n |-> n]
                 ELSE RemoveScan(Tail(es), m, written \o prev,
                        IF prev = <<LB>>
                        THEN <<LB, EntryTok(e.id, JsonText(e.data))>>
                        ELSE <<COMMA, EntryTok(e.id, JsonText(e.data))>>,
                        n)

\* #readStreamParsing + the update callback; n is updatedEntries.
RECURSIVE UpdateScan(_, _, _, _, _)
UpdateScan(es, m, written, prev, n) ==
  IF es = <<>> THEN [err |-> "", written |-> written, prev |-> prev, n |-> n]
  ELSE LET e == Head(es)
           r == Modify(m, e)
           d == IF r = "undefined" THEN e.data ELSE r
           k == IF r = "undefined" THEN n ELSE n + 1
       IN IF r = "throw"
          THEN [err |-> "ModifierError", written |-> written, prev |-> prev, n |-> n]
          ELSE IF ~CanStringify(d)
          THEN [err |-> "SERIALIZATION_ERROR", written |-> written, prev |-> prev, n |-> k]
          ELSE UpdateScan(Tail(es), m, written \o prev,
                 IF prev = <<LB>>
                 THEN <<LB, EntryTok(e.id, JsonText(d))>>
                 ELSE <<COMMA, EntryTok(e.id, JsonText(d))>>,
                 k)

\* (mutation) the exception of the callback is replaced by a read error
RethrowWrapped(err) == "FILE_READ_ERROR"

\* the data handler's catch: destroy(); reject(err), err being what the
\* callback threw
Rethrow(err) == err

\* the whole streaming pass of remove / update over the store file f:
\* the scan of the decoded pairs, then the parser's own error if the text
\* was not one complete object, then tempFile.end(prevFormattedEntry + '}')
RewritePass(op, m, f) ==
  LET p == Parse(f.toks)
      s == IF op = "remove" THEN RemoveScan(p.entries, m, <<>>, <<LB>>, 0)
                            ELSE UpdateScan(p.entries, m, <<>>, <<LB>>, 0)
  IN IF s.err # "" THEN [err |-> Rethrow(s.err), toks |-> s.written, n |-> s.n]
     ELSE IF ~p.ok THEN [err |-> "FILE_READ_ERROR", toks |-> s.written, n |-> s.n]
     ELSE [err |-> "", toks |-> s.written \o s.prev \o <<RB>>, n |-> s.n]

\* #readStream + the add callback, one 'data' event per chunk
RECURSIVE RawScan(_, _, _, _)
RawScan(toks, total, prev, written) ==
  IF toks = <<>> THEN [total |-> total, prev |-> prev, written |-> written]
  ELSE LET k == IF Len(toks) < ChunkToks THEN Len(toks) ELSE ChunkToks
           chunk == SubSeq(toks, 1, k)
       IN RawScan(SubSeq(toks, k + 1, Len(toks)), total + TotalLen(chunk),
                  chunk, written \o prev)

\* prevChunk.slice(0, prevChunk.length - 1)
SliceLastChar(chunk) ==
  IF chunk = <<>> THEN <<>>
  ELSE IF TokLen(chunk[Len(chunk)]) = 1 THEN SubSeq(chunk, 1, Len(chunk) - 1)
  ELSE SubSeq(chunk, 1, Len(chunk) - 1) \o <<JUNK>>

\* formattedEntries.join(',')
RECURSIVE JoinNew(_, _)
JoinNew(ids, recs) ==
  IF ids = <<>> THEN <<>>
  ELSE IF Len(ids) = 1 THEN <<EntryTok(ids[1], JsonText(recs[1]))>>
  ELSE <<EntryTok(ids[1], JsonText(recs[1])), COMMA>> \o JoinNew(Tail(ids), Tail(recs))

\* (mutation) the comma is always written
SeparatorAlways(total) == <<COMMA>>

\* the comma add puts between the old pairs and the new ones
Separator(total) == IF total > 2 THEN <<COMMA>> ELSE <<>>

\* the temp file add assembles from the store file f
AddPass(recs, ids, f) ==
  LET s == RawScan(f.toks, 0, <<>>, <<>>)
  IN s.written \o SliceLastChar(s.prev) \o Separator(s.total)
       \o JoinNew(ids, recs) \o <<RB>>

\* (mutation) the generator starts over at every call
FreshIdsAgain(from, n) == [i \in 1..n |-> i]

\* randomUUID() for each record
FreshIds(from, n) == [i \in 1..n |-> from + i - 1]

\* ------------------------------------------------------------------ find
\* the default of the limit option: above every number of entries
Infinity == 1000

\* FilterOptions after the defaults are filled in
Opts(limit, offset, hold) == [limit |-> limit, offset |-> offset, hold |-> hold]
NoOpts == Opts(Infinity, 0, FALSE)

\* usableOffset
UsableOffset(offset) == IF offset < 0 THEN 0 ELSE offset

\* (mutation) ++matched >= usableOffset
PastOffsetEq(matched, offset) == matched >= UsableOffset(offset)

\* ++matched > usableOffset, matched being the count after the increment
PastOffset(matched, offset) == matched > UsableOffset(offset)

\* (mutation) the flag is not raised for a match found after the limit
MatchAfterLimitSilent(a) == [a EXCEPT !.destroyed = TRUE]

\* a match found when the limit is reached: wereThereMatchesLeft = true and
\* destroy()
MatchAfterLimit(a) == [a EXCEPT !.left = TRUE, !.destroyed = TRUE]

\* (mutation) the scan goes on after the limit whatever holdTillMatch is
NeverStopsEarly(o, exceed) == FALSE

\* if (!holdTillMatch && doesExceedLimit) return destroy()
StopsEarly(o, exceed) == ~o.hold /\ exceed

\* the variables of find's task before the first entry: seen counts the
\* entries handed to the callback, evals the calls of the matcher
FindStart ==
  [err |-> "", entries |-> <<>>, matched |-> 0, left |-> FALSE,
   destroyed |-> FALSE, seen |-> 0, evals |-> 0]

\* #readStreamParsing + the find callback over the decoded pairs es: no
\* 'data' event follows destroy(); a matcher that throws destroys the
\* stream and rejects with what it threw
RECURSIVE FindScan(_, _, _, _)
FindScan(es, m, o, a) ==
  IF es = <<>> \/ a.destroyed THEN a
  ELSE LET e  == Head(es)
           exceed == Len(a.entries) >= o.limit
           a1 == [a EXCEPT !.seen = @ + 1]
           a2 == [a1 EXCEPT !.evals = @ + 1]
           r  == Match(m, e)
       IN IF StopsEarly(o, exceed) THEN [a1 EXCEPT !.destroyed = TRUE]
          ELSE CASE r = "throw" ->
                      [a2 EXCEPT !.err = "MatcherError", !.destroyed = TRUE]
                 [] r = "no" -> FindScan(Tail(es), m, o, a2)
                 [] OTHER ->
                      IF exceed THEN MatchAfterLimit(a2)
                      ELSE FindScan(Tail(es), m, o,
                             [a2 EXCEPT !.matched = @ + 1,
                                        !.entries =
                                           IF PastOffset(a.matched + 1, o.offset)
                                           THEN Append(@, e) ELSE @])


\* ------------------------------------------------------------ the handle
\* the part of the state the handle's code reads and writes
Here == [file |-> file, temp |-> temp, queue |-> queue, isLocked |-> isLocked,
         running |-> running, calls |-> calls, nextId |-> nextId,
         startOrder |-> startOrder, lingering |-> lingering]

Becomes(s) ==
  /\ file' = s.file
  /\ temp' = s.temp
  /\ queue' = s.queue
  /\ isLocked' = s.isLocked
  /\ running' = s.running
  /\ calls' = s.calls
  /\ nextId' = s.nextId
  /\ startOrder' = s.startOrder
  /\ lingering' = s.lingering

\* one API call: task is the state of the promise addTask returned for it
\* ("none": never submitted), startFile / endFile the store file when its
\* task began and ended, fault the filesystem fault it met, renamed whether
\* its rename step succeeded, waited whether it was submitted while another
\* task was being processed
\* opts are find's options and scan the variables of find's task.  (For a
\* find that submits no task, startFile and endFile are the store file when
\* find was called.)
Call(op, recs, m) ==
  [op |-> op, recs |-> recs, m |-> m, fut |-> Pending, task |-> "none",
   startFile |-> Missing, endFile |-> Missing, fault |-> "none",
   renamed |-> FALSE, waited |-> FALSE, opts |-> NoOpts, scan |-> FindStart]

\* the task a loop is executing: pc is the filesystem request it waits for,
\* out the text handed to the write stream, n the count, ids the new ids
Task(c, pc, err) ==
  [call |-> c, pc |-> pc, err |-> err, out |-> <<>>, n |-> 0, ids |-> <<>>]

RemoveAt(seq, i) == SubSeq(seq, 1, i - 1) \o SubSeq(seq, i + 1, Len(seq))

\* fn() of the task of call c, up to its first wait.  A rewrite opens the
\* write stream on the temp path (created or truncated) and then checks that
\* the store file exists (#throwMissingFile, synchronously); clearAll issues
\* fs.writeFile on the temp path.
\* (mutation) clearAll checks that the store file exists, as a rewrite does
FirstStepChecked(s, c) ==
  IF ~s.file.present THEN Task(c, "cleanup", "MISSING_FILE")
  ELSE IF s.calls[c].op = "clearAll" THEN Task(c, "cwrite", "")
  ELSE IF s.calls[c].op = "find" THEN Task(c, "scan", "")
  ELSE Task(c, "read", "")

FirstStep(s, c) ==
  IF s.calls[c].op = "clearAll" THEN Task(c, "cwrite", "")
  ELSE IF s.calls[c].op = "find"
  THEN IF s.file.present THEN Task(c, "scan", "")
       ELSE Task(c, "missing", "MISSING_FILE")
  ELSE IF s.file.present THEN Task(c, "read", "")
  ELSE Task(c, "cleanup", "MISSING_FILE")

\* (mutation) every task runs inside #tempFileWriteOperation
OpensTempAlways(op) == TRUE

\* the tasks that call #tempFileWriteOperation, whose first statement is
\* fs.createWriteStream(temp): add, remove and update; clearAll and find
\* do not
OpensTemp(op) == op \notin {"clearAll", "find"}

Begin(s, c) ==
  [s EXCEPT !.calls[c].task = "running",
            !.calls[c].startFile = s.file,
            !.startOrder = Append(@, c),
            !.temp = IF OpensTemp(s.calls[c].op)
                     THEN Content(<<>>) ELSE @]

\* (mutation) this.#queue.pop()
Pop(q) == [task |-> q[Len(q)], rest |-> SubSeq(q, 1, Len(q) - 1)]

\* which waiting task a #processQueue loop takes: this.#queue.shift()
Shift(q) == [task |-> Head(q), rest |-> Tail(q)]

\* #processQueue, entered from addTask: lock, take a task and run it
ProcessQueue(s) ==
  LET t  == Shift(s.queue)
      s1 == Begin([s EXCEPT !.isLocked = TRUE, !.queue = t.rest], t.task)
  IN [s1 EXCEPT !.running = Append(@, FirstStep(s, t.task))]

\* (mutation) addTask enters #processQueue without looking at the lock
IdleAlways(s) == TRUE

\* whether addTask enters #processQueue: if (!this.#isLocked)
Idle(s) == ~s.isLocked

\* addTask: push the task, start processing if the queue is not locked
AddTask(s, call) ==
  LET c  == Len(s.calls) + 1
      s1 == [s EXCEPT !.calls = Append(@, [call EXCEPT !.task = "queued",
                                                       !.waited = s.isLocked]),
                      !.queue = Append(@, c)]
  IN IF Idle(s) THEN ProcessQueue(s1) ELSE s1

\* (mutation) no try / catch around the task: a rejection ends the loop
LoopDies(ok) == ok

\* whether the loop goes on to the next task after one that ended with
\* ok = FALSE: the catch in #processQueue rejects and the loop continues
LoopSurvives(ok) == TRUE

\* the loop i after its task ended: the next waiting task, or unlock and stop
LoopNext(s, i, ok) ==
  IF ~LoopSurvives(ok) THEN [s EXCEPT !.running = RemoveAt(@, i)]
  ELSE IF s.queue # <<>>
  THEN LET t  == Shift(s.queue)
           s1 == Begin([s EXCEPT !.queue = t.rest], t.task)
       IN [s1 EXCEPT !.running[i] = FirstStep(s, t.task)]
  ELSE [s EXCEPT !.isLocked = FALSE, !.running = RemoveAt(@, i)]

\* (mutation) the outcome goes to the promise of the first call
RoutedFirst(t) == 1

\* whose promise #processQueue settles with the outcome of task t: the
\* resolve / reject taken from the queue together with fn
Routed(t) == t.call

\* the task of loop i fulfilled: the task function of remove / update has
\* resolved the caller's future with the count, clearAll's with null
TaskDone(s, i) ==
  LET t == s.running[i]
      c == Routed(t)
      op == s.calls[c].op
      f == s.calls[c].fut
      s1 == [s EXCEPT !.calls[c].task = "ok",
                      !.calls[c].endFile = s.file,
                      !.calls[c].fut =
                         CASE op \in {"remove", "update"} -> CountResult(f, t.n)
                           [] op = "clearAll" -> Resolve(f, "null", <<>>, 0)
                           [] OTHER -> f]
  IN LoopNext(s1, i, TRUE)

\* the task of loop i rejected with err: .catch(reject) on the caller's future
TaskFailed(s, i, err) ==
  LET c == Routed(s.running[i])
      s1 == [s EXCEPT !.calls[c].task = "failed",
                      !.calls[c].endFile = s.file,
                      !.calls[c].fut = Reject(@, err)]
  IN LoopNext(s1, i, FALSE)


\* -------------------------------------------------------------- API calls
\* the error add throws before it submits anything, "" if none
AddRejection(recs) ==
  IF recs = <<>> THEN "INVALID_PARAMS"
  ELSE IF \E i \in DOMAIN recs : ~CanStringify(recs[i]) THEN "SERIALIZATION_ERROR"
  ELSE ""

\* (mutation) add submits its task without validating or serializing first
AddUnchecked(s, recs) == AddTask(s, Call("add", recs, NoFn))

\* add(data): validate, serialize, then submit the task
Add(s, recs) ==
  IF AddRejection(recs) # ""
  THEN [s EXCEPT !.calls = Append(@, [Call("add", recs, NoFn) EXCEPT
                                        !.fut = Reject(Pending, AddRejection(recs))])]
  ELSE AddTask(s, Call("add", recs, NoFn))

\* (mutation) find submits its task whatever the limit is
FindNeverSkips(o) == FALSE

\* if (limit <= 0) return;
FindSkips(o) == o.limit <= 0

\* find(matcher, options)
Find(s, m, o) ==
  LET call == [Call("find", <<>>, m) EXCEPT !.opts = o]
  IN IF FindSkips(o)
     THEN [s EXCEPT !.calls = Append(@, [call EXCEPT
                                 !.startFile = s.file, !.endFile = s.file,
                                 !.fut = Resolve(Pending, "undefined", <<>>, 0)])]
     ELSE AddTask(s, call)

\* findById(id): find with the id matcher and { limit: 1 }
FindById(s, id) == Find(s, ById(id), Opts(1, 0, FALSE))

CanCall == ~crashed /\ Len(calls) < MaxCalls

CallAdd ==
  /\ CanCall
  /\ \E recs \in AddInputs : Becomes(Add(Here, recs))
  /\ UNCHANGED <<faults, uncaught, crashed>>

CallRemove ==
  /\ CanCall
  /\ \E m \in Matchers : Becomes(AddTask(Here, Call("remove", <<>>, m)))
  /\ UNCHANGED <<faults, uncaught, crashed>>

CallUpdate ==
  /\ CanCall
  /\ \E m \in Modifiers : Becomes(AddTask(Here, Call("update", <<>>, m)))
  /\ UNCHANGED <<faults, uncaught, crashed>>

CallClearAll ==
  /\ CanCall
  /\ Becomes(AddTask(Here, Call("clearAll", <<>>, NoFn)))
  /\ UNCHANGED <<faults, uncaught, crashed>>

\* the ids findById is called with: an entry of the initial store, the first
\* id add hands out
SoughtIds == {1, 3}

CallFindById ==
  /\ CanCall
  /\ \E id \in SoughtIds : Becomes(FindById(Here, id))
  /\ UNCHANGED <<faults, uncaught, crashed>>

\* find(matcher) with the default options and a matcher that throws
ThrowingMatchers == {Fn("throw", "b", "")}

CallFindDefault ==
  /\ CanCall
  /\ \E m \in ThrowingMatchers : Becomes(Find(Here, m, NoOpts))
  /\ UNCHANGED <<faults, uncaught, crashed>>

\* ------------------------------------------------------- filesystem steps
At(i, pc) == ~crashed /\ i \in DOMAIN running /\ running[i].pc = pc
CanFault == faults < MaxFaults
NoFault == UNCHANGED <<faults, uncaught, crashed>>
Fault == faults' = faults + 1 /\ UNCHANGED <<uncaught, crashed>>

\* the read pass reached the end of the store file; the task has called
\* tempFile.end(...) with the last piece
ReadEnd(s, i) ==
  LET t == s.running[i]
      call == s.calls[t.call]
  IN IF ~s.file.present
     THEN [s EXCEPT !.running[i] = [t EXCEPT !.pc = "cleanup", !.err = "FILE_READ_ERROR"]]
     ELSE IF call.op = "add"
     THEN LET ids == FreshIds(s.nextId, Len(call.recs))
          IN [s EXCEPT !.nextId = @ + Len(call.recs),
                       !.running[i] = [t EXCEPT !.pc = "flush", !.ids = ids,
                                         !.out = AddPass(call.recs, ids, s.file)]]
     ELSE LET r == RewritePass(call.op, call.m, s.file)
          IN IF r.err # ""
             THEN [s EXCEPT !.running[i] = [t EXCEPT !.pc = "cleanup", !.err = r.err]]
             ELSE [s EXCEPT !.running[i] = [t EXCEPT !.pc = "flush", !.out = r.toks,
                                              !.n = r.n]]

ReadPass(i) ==
  /\ At(i, "read")
  /\ Becomes(ReadEnd(Here, i))
  /\ NoFault

\* the file read stream emits 'error'.  #readStream (add) listens on it and
\* rejects.  #readStreamParsing (remove, update, find) listens on the parser
\* the file stream is piped into, and pipe() forwards no error: the event
\* has no listener, which throws out of the emitter, and the parser is
\* left without 'end' or 'error', so the task never settles.
ReadFault(i) ==
  /\ (At(i, "read") \/ At(i, "scan")) /\ CanFault
  /\ LET c == running[i].call
     IN IF calls[c].op = "add"
        THEN /\ Becomes([Here EXCEPT !.calls[c].fault = "read",
                                     !.running[i] = [@ EXCEPT !.pc = "cleanup",
                                                    !.err = "FILE_READ_ERROR"]])
             /\ uncaught' = uncaught
        ELSE /\ Becomes([Here EXCEPT !.calls[c].fault = "read",
                                     !.running[i] = [@ EXCEPT !.pc = "hung"]])
             /\ uncaught' = TRUE
  /\ faults' = faults + 1
  /\ UNCHANGED crashed

\* find's read pass over the store file: the matcher's exception, or the
\* stream destroyed before its end, or the parser's error, or the result
FindEnd(s, i) ==
  LET t == s.running[i]
      c == t.call
      p == Parse(s.file.toks)
      r == FindScan(p.entries, s.calls[c].m, s.calls[c].opts, FindStart)
      s1 == [s EXCEPT !.calls[c].scan = r]
  IN IF r.err # "" THEN TaskFailed(s1, i, Rethrow(r.err))
     ELSE IF r.destroyed
     THEN [s1 EXCEPT !.running[i] = [t EXCEPT !.pc = "destroyed"]]
     ELSE IF ~p.ok THEN TaskFailed(s1, i, "FILE_READ_ERROR")
     ELSE TaskDone([s1 EXCEPT !.calls[c].fut =
                                 FindResult(@, r.entries, r.left)], i)

FindPass(i) ==
  /\ At(i, "scan")
  /\ Becomes(FindEnd(Here, i))
  /\ NoFault

\* find's task when the store file is missing: #throwMissingFile
FindMissing(i) ==
  /\ At(i, "missing")
  /\ Becomes(TaskFailed(Here, i, running[i].err))
  /\ NoFault

\* the parser stream emits 'end' although find destroyed it: the task
\* resolves with what the callback collected.  (Whether a destroyed stream
\* still emits 'end' depends on the stream implementation; where it does
\* not, this step never happens and the task stays where it is.)
EndAfterDestroy(i) ==
  /\ At(i, "destroyed")
  /\ LET c == running[i].call
         r == calls[c].scan
     IN Becomes(TaskDone([Here EXCEPT !.calls[c].fut =
                                        FindResult(@, r.entries, r.left)], i))
  /\ NoFault

\* the callback given to tempFile.end runs with the text toks on disk: add
\* resolves the caller's future with the ids there (`.then(resolve)` names
\* the resolve of the promise add returned); then the write callback
\* returns and #tempFileWriteOperation calls #rename
EndCallback(s, i, toks) ==
  LET t == s.running[i]
      c == t.call
  IN [s EXCEPT !.temp = IF @.present THEN Content(toks) ELSE @,
               !.calls[c].fut = IF s.calls[c].op = "add"
                                THEN Resolve(@, "ids", t.ids, 0) ELSE @,
               !.running[i] = [t EXCEPT !.pc = "rename"]]

\* the write stream finished: everything handed to it is in the temp file
Flush(i) ==
  /\ At(i, "flush")
  /\ Becomes(EndCallback(Here, i, running[i].out))
  /\ NoFault

\* where a failing write stops: before the first token or before the last
WriteCuts(out) == {0, Len(out) - 1}

\* a write to the temp file fails after n tokens.  The stream's 'error'
\* listener throws inside the event emitter, which rejects nothing; the
\* stream still runs the callback given to end(), which ignores its error
\* argument, so the write callback returns normally.
FlushFault(i) ==
  /\ At(i, "flush") /\ CanFault
  /\ \E n \in WriteCuts(running[i].out) :
       Becomes(EndCallback([Here EXCEPT !.calls[running[i].call].fault = "write"],
                           i, SubSeq(running[i].out, 1, n)))
  /\ faults' = faults + 1
  /\ uncaught' = TRUE
  /\ UNCHANGED crashed

\* fs.rename(temp, file) completed
Renamed(s, i) ==
  IF s.temp.present
  THEN TaskDone([s EXCEPT !.file = s.temp, !.temp = Missing,
                          !.calls[s.running[i].call].renamed = TRUE], i)
  ELSE TaskFailed(s, i, "TEMP_FILE_RENAME_ERROR")

\* (an exception of the 'error' listener that has not ended the process by
\* now went to the process's uncaughtException handler)
Rename(i) ==
  /\ At(i, "rename")
  /\ Becomes(Renamed(Here, i))
  /\ uncaught' = FALSE
  /\ UNCHANGED <<faults, crashed>>

RenameFault(i) ==
  /\ At(i, "rename") /\ CanFault
  /\ Becomes(TaskFailed([Here EXCEPT !.calls[running[i].call].fault = "rename"],
                        i, "TEMP_FILE_RENAME_ERROR"))
  /\ Fault

\* what fs.unlink(temp) in the catch leaves.  After a failure of the read
\* pass the write stream has long opened the temp file, which is removed.
\* MISSING_FILE is thrown in the turn that created the write stream, whose
\* fs.open is issued on a later tick than (or together with) this unlink
\* and is not ordered with it: the unlink removes the file, or finds none
\* and the open then creates it.
CleanupLeaves(err) ==
  IF err = "MISSING_FILE" THEN {Missing, Content(<<>>)} ELSE {Missing}

\* the catch of #tempFileWriteOperation: fs.unlink(temp) completed, the
\* error is thrown again; the finally calls writeStream.end() and does not
\* wait for the stream, and the rejection reaches #processQueue in the same
\* turn
Cleanup(i) ==
  /\ At(i, "cleanup")
  /\ \E left \in CleanupLeaves(running[i].err) :
       Becomes(TaskFailed([Here EXCEPT !.temp = left, !.lingering = @ + 1],
                          i, running[i].err))
  /\ NoFault

\* a write stream ended by the finally has flushed and closed
StreamFinish ==
  /\ ~crashed /\ lingering > 0
  /\ Becomes([Here EXCEPT !.lingering = @ - 1])
  /\ NoFault

\* clearAll: fs.writeFile(temp, '{}') completed, #rename is called
ClearWrite(i) ==
  /\ At(i, "cwrite")
  /\ Becomes([Here EXCEPT !.temp = Content(<<LB, RB>>),
                          !.running[i] = [@ EXCEPT !.pc = "rename"]])
  /\ NoFault

\* clearAll: fs.writeFile failed, leaving no temp file or part of one
ClearWriteFault(i) ==
  /\ At(i, "cwrite") /\ CanFault
  /\ \E left \in {temp, Content(<<LB>>)} :
       Becomes(TaskFailed([Here EXCEPT !.temp = left,
                                       !.calls[running[i].call].fault = "write"],
                          i, "TEMP_FILE_WRITE_ERROR"))
  /\ Fault

\* the store file is deleted from outside while the handle is idle
ExternalUnlink ==
  /\ ~crashed /\ CanFault
  /\ running = <<>> /\ file.present
  /\ file' = Missing
  /\ faults' = faults + 1
  /\ UNCHANGED <<temp, queue, isLocked, running, calls, nextId, uncaught,
                 crashed, startOrder, lingering>>

\* the exception thrown in the 'error' listener ends the process
Crash ==
  /\ uncaught /\ ~crashed
  /\ crashed' = TRUE
  /\ UNCHANGED <<file, temp, queue, isLocked, running, calls, nextId, faults,
                 uncaught, startOrder, lingering>>

\* ------------------------------------------------------------ construction
\* (mutation) initDB never writes over an existing file
InitDBKeep(before, overwrite) ==
  IF ~before.present THEN Content(<<LB, RB>>) ELSE before

\* initDB(path, overwrite): '{}' unless the file exists and is kept
InitDB(before, overwrite) ==
  IF ~before.present \/ overwrite THEN Content(<<LB, RB>>) ELSE before

\* what the path may hold before the handle is constructed
PreExisting ==
  {Missing, Content(Render(<<>>)),
   Content(Render(<<Entry(1, "a"), Entry(2, "b")>>))}

Init ==
  /\ \E before \in PreExisting, overwrite \in BOOLEAN :
       file = InitDB(before, overwrite)
  /\ temp = Missing
  /\ queue = <<>>
  /\ isLocked = FALSE
  /\ running = <<>>
  /\ calls = <<>>
  /\ nextId = 3
  /\ faults = 0
  /\ uncaught = FALSE
  /\ crashed = FALSE
  /\ startOrder = <<>>
  /\ lingering = 0

Loops == 1..MaxCalls

Next ==
  \/ CallRemove
  \/ CallAdd
  \/ CallUpdate
  \/ CallClearAll
  \/ CallFindById
  \/ CallFindDefault
  \/ \E i \in Loops : ReadPass(i)
  \/ \E i \in Loops : ReadFault(i)
  \/ \E i \in Loops : FindPass(i)
  \/ \E i \in Loops : FindMissing(i)
  \/ \E i \in Loops : EndAfterDestroy(i)
  \/ \E i \in Loops : Flush(i)
  \/ \E i \in Loops : FlushFault(i)
  \/ \E i \in Loops : Rename(i)
  \/ \E i \in Loops : RenameFault(i)
  \/ \E i \in Loops : Cleanup(i)
  \/ StreamFinish
  \/ \E i \in Loops : ClearWrite(i)
  \/ \E i \in Loops : ClearWriteFault(i)
  \/ ExternalUnlink
  \/ Crash

Spec == Init /\ [][Next]_vars

\* ------------------------------------------------- a handle that only searches
\* the entries of the stores searched
FindStores ==
  {<<>>, <<Entry(1, "a")>>, <<Entry(1, "a"), Entry(2, "b"), Entry(3, "a")>>,
   <<Entry(1, "a"), Entry(2, "a"), Entry(3, "b"), Entry(4, "a")>>}

FindInit ==
  /\ \E es \in FindStores : file = InitDB(Content(Render(es)), FALSE)
  /\ temp = Missing
  /\ queue = <<>>
  /\ isLocked = FALSE
  /\ running = <<>>
  /\ calls = <<>>
  /\ nextId = 5
  /\ faults = 0
  /\ uncaught = FALSE
  /\ crashed = FALSE
  /\ startOrder = <<>>
  /\ lingering = 0

FindMatchers == {Fn("all", "", ""), Fn("data", "a", ""), Fn("throw", "b", "")}
FindLimits   == {-1, 0, 1, 2, Infinity}
FindOffsets  == {-1, 0, 1, 2}

CallFind ==
  /\ ~crashed /\ Len(calls) < MaxFinds
  /\ \E m \in FindMatchers, l \in FindLimits, o \in FindOffsets, h \in BOOLEAN :
       Becomes(Find(Here, m, Opts(l, o, h)))
  /\ UNCHANGED <<faults, uncaught, crashed>>

FindNext ==
  \/ CallFind
  \/ \E i \in Loops : FindPass(i)
  \/ \E i \in Loops : ReadFault(i)
  \/ \E i \in Loops : FindMissing(i)
  \/ \E i \in Loops : EndAfterDestroy(i)
  \/ ExternalUnlink
  \/ Crash

FindSpec == FindInit /\ [][FindNext]_vars


\* ------------------------------------------------ the by-id wrappers
\* what removeById / updateById return for the value remove / update
\* resolved with: if (!removedEntry) return; return true
ByIdValue(f) == IF f.kind = "count" /\ f.n # 0 THEN "true" ELSE "undefined"

\* ids passed to the wrappers: two entries of the initial store, no entry
WrapperIds == {1, 2, 7}
\* what the modifier given to updateById returns
WrapperValues == {"b", BadData}

\* removeById(id): remove with the id matcher
CallRemoveById ==
  /\ CanCall
  /\ \E id \in WrapperIds : Becomes(AddTask(Here, Call("remove", <<>>, ById(id))))
  /\ UNCHANGED <<faults, uncaught, crashed>>

\* updateById(id, modifier): update with the modifier restricted to id
CallUpdateById ==
  /\ CanCall
  /\ \E id \in WrapperIds, v \in WrapperValues :
       Becomes(AddTask(Here, Call("update", <<>>, ModById(id, v))))
  /\ UNCHANGED <<faults, uncaught, crashed>>

ByIdNext ==
  \/ CallRemoveById
  \/ CallUpdateById
  \/ \E i \in Loops : ReadPass(i)
  \/ \E i \in Loops : Flush(i)
  \/ \E i \in Loops : Rename(i)
  \/ \E i \in Loops : Cleanup(i)
  \/ StreamFinish

ByIdSpec == Init /\ [][ByIdNext]_vars

\* ------------------------------------------- adding at once or one by one
\* (mutation) addOne hands its record to add twice
AddOneTwice(s, x) ==
  LET s1 == Add(s, <<x, x>>)
  IN [s1 EXCEPT !.calls[Len(s1.calls)].m = Fn("one", x, "")]

\* addOne(data): this.add([data]); m keeps the record addOne was given
AddOne(s, x) ==
  LET s1 == Add(s, <<x>>)
  IN [s1 EXCEPT !.calls[Len(s1.calls)].m = Fn("one", x, "")]

\* what addOne returns for the ids add resolved with: const [id] = ...
AddOneValue(f) == IF f.st = "resolved" /\ f.kind = "ids" THEN f.ids[1] ELSE 0

\* the batches add is called with: every sequence of 1..MaxBatch records
BatchInputs == UNION {[1..n -> Data] : n \in 1..MaxBatch}

\* add(xs), the only call made on the handle
CallAddBatch ==
  /\ ~crashed /\ calls = <<>>
  /\ \E xs \in BatchInputs : Becomes(Add(Here, xs))
  /\ UNCHANGED <<faults, uncaught, crashed>>

\* addOne(x), after nothing but addOne calls
CallAddOne ==
  /\ ~crashed /\ Len(calls) < MaxBatch
  /\ \A c \in DOMAIN calls : calls[c].m.kind = "one"
  /\ \E x \in Data \cup {BadData} : Becomes(AddOne(Here, x))
  /\ UNCHANGED <<faults, uncaught, crashed>>

BatchNext ==
  \/ CallAddBatch
  \/ CallAddOne
  \/ \E i \in Loops : ReadPass(i)
  \/ \E i \in Loops : Flush(i)
  \/ \E i \in Loops : Rename(i)

BatchSpec == Init /\ [][BatchNext]_vars

\* ------------------------------------------- runs that begin before `new`
\* the constructions made so far: new FlickerDB(path, { overwrite }) is kept
\* in calls as op "new", with the file before and after it and the option
\* in m.kind
Handles == Cardinality({c \in DOMAIN calls : calls[c].op = "new"})

\* the constructor: transformPath, initDB, the fields; it keeps no record
\* of the paths in use and throws nothing
Construct ==
  /\ ~crashed /\ Handles < MaxHandles /\ Len(calls) < MaxCalls
  /\ \E overwrite \in BOOLEAN :
       LET after == InitDB(file, overwrite)
           call == [Call("new", <<>>,
                         Fn(IF overwrite THEN "overwrite" ELSE "keep", "", ""))
                      EXCEPT !.startFile = file, !.endFile = after]
       IN Becomes([Here EXCEPT !.file = after, !.calls = Append(@, call)])
  /\ UNCHANGED <<faults, uncaught, crashed>>

ConstructInit ==
  /\ file \in PreExisting
  /\ temp = Missing
  /\ queue = <<>>
  /\ isLocked = FALSE
  /\ running = <<>>
  /\ calls = <<>>
  /\ nextId = 3
  /\ faults = 0
  /\ uncaught = FALSE
  /\ crashed = FALSE
  /\ startOrder = <<>>
  /\ lingering = 0

\* the operations are those of the handle constructed first
ConstructNext ==
  \/ Construct
  \/ Handles > 0 /\ Next

ConstructSpec == ConstructInit /\ [][ConstructNext]_vars

\* ------------------------------------------- a handle under fair scheduling
\* every API call of Next, while fewer than MaxLive calls were made
LiveCall ==
  /\ Len(calls) < MaxLive
  /\ \/ CallRemove \/ CallAdd \/ CallUpdate \/ CallClearAll
     \/ CallFindById \/ CallFindDefault

\* the completion of a filesystem request the handle waits for, without a
\* fault: libuv completes every request it was given
Completion ==
  \E i \in Loops :
    \/ ReadPass(i) \/ FindPass(i) \/ FindMissing(i) \/ Flush(i)
    \/ Rename(i) \/ Cleanup(i) \/ ClearWrite(i)
StreamCompletion == StreamFinish

LiveNext ==
  \/ LiveCall
  \/ Completion
  \/ StreamCompletion
  \/ \E i \in Loops : ReadFault(i)
  \/ \E i \in Loops : EndAfterDestroy(i)
  \/ \E i \in Loops : FlushFault(i)
  \/ \E i \in Loops : RenameFault(i)
  \/ \E i \in Loops : ClearWriteFault(i)
  \/ ExternalUnlink
  \/ Crash

\* A started request completes.  Nothing in the handle makes a destroyed
\* parser stream emit 'end' (destroy() emits 'close'), so that step is
\* possible but not owed.
LiveSpec ==
  Init /\ [][LiveNext]_vars /\ WF_vars(Completion) /\ WF_vars(StreamCompletion)

\* ================================================================= claims
Mutating == {"add", "remove", "update", "clearAll"}
Ended(c) == calls[c].task \in {"ok", "failed"}
Began(c) == calls[c].task \in {"running", "ok", "failed"}
Submitted(c) == calls[c].task # "none"
Pos(c) == CHOOSE k \in DOMAIN startOrder : startOrder[k] = c

\* an outside deletion is the only fault no call records
DeletedOutside == faults > Cardinality({c \in DOMAIN calls : calls[c].fault # "none"})

\* C1: a mutating operation that failed at any stage (missing file, read
\* error, callback exception, temp-file write error, rename error) leaves the
\* store file as it was when the operation began.
C1_Atomicity ==
  \A c \in DOMAIN calls :
    (/\ calls[c].op \in Mutating
     /\ Ended(c)
     /\ (calls[c].task = "failed" \/ calls[c].fault # "none"))
    => calls[c].endFile = calls[c].startFile

\* C2: the store file, when present, is always one complete well-formed
\* object, and its content changes only by the rename of the temp file.
C2_AlwaysWellFormed ==
  /\ [](file.present => WellFormed(file))
  /\ [][(file.present /\ file'.present /\ file' # file)
          => (temp.present /\ file' = temp /\ ~temp'.present)]_vars

\* C3: at no time are two submitted tasks executing; a task begins only
\* after every task that began before it has ended.
C3_MutualExclusion ==
  /\ Len(running) <= 1
  /\ Cardinality({c \in DOMAIN calls : calls[c].task = "running"}) <= 1
  /\ \A k \in DOMAIN startOrder : k < Len(startOrder) => Ended(startOrder[k])

C3_Witness ==
  /\ Len(startOrder) >= 2
  /\ running # <<>>
  /\ queue # <<>>

\* C4: tasks begin in the order they were submitted, whether they were
\* submitted to an idle or to a busy queue and whether earlier tasks failed.
C4_Fifo ==
  \A d \in DOMAIN calls : \A c \in DOMAIN calls :
    (c < d /\ Submitted(c) /\ Began(d)) => (Began(c) /\ Pos(c) < Pos(d))

C4_Witness ==
  /\ Len(startOrder) = 3
  /\ calls[1].task = "failed"
  /\ calls[2].waited /\ calls[3].waited

\* C5: a task that rejects does not halt the queue or the handle: its
\* future is settled with the error, a processing loop stays active while
\* tasks wait, the lock is released when none is left, and no waiting task
\* is dropped, so the tasks submitted after it run.
C5_FailureIsolation ==
  (\E c \in DOMAIN calls : calls[c].task = "failed") =>
    /\ \A c \in DOMAIN calls : calls[c].task = "failed" =>
         /\ calls[c].fut.st # "pending"
         /\ calls[c].op # "add" => calls[c].fut.st = "rejected"
    /\ queue # <<>> => running # <<>>
    /\ isLocked <=> running # <<>>
    /\ \A c \in DOMAIN calls : calls[c].task = "queued" =>
         \E k \in DOMAIN queue : queue[k] = c

C5_Witness ==
  /\ Len(calls) >= 3
  /\ calls[1].task = "failed"
  /\ calls[2].task = "ok" /\ calls[2].waited
  /\ calls[3].task = "ok" /\ ~calls[3].waited

\* C6: whenever the future of a mutating operation is resolved with a
\* success value, its rename has completed successfully.
C6_SuccessMeansLanded ==
  \A c \in DOMAIN calls :
    (calls[c].op \in Mutating /\ calls[c].fut.st = "resolved") => calls[c].renamed

HasText(f, d) ==
  \E k \in DOMAIN f.toks : f.toks[k].k = "entry" /\ f.toks[k].json = JsonText(d)

\* C7: every operation begins from the store file left by the operation
\* called before it on the handle; on a well-formed store, a
\* remove(matchX) called right after an add(x) that met no filesystem fault
\* counts at least one entry and leaves a store without x.
C7_Ordering ==
  \A d \in DOMAIN calls : \A c \in DOMAIN calls :
    (/\ c < d /\ Submitted(c) /\ Began(d)
     /\ \A e \in DOMAIN calls : (c < e /\ e < d) => ~Submitted(e))
    => /\ Ended(c)
       /\ ~DeletedOutside => calls[d].startFile = calls[c].endFile
       /\ (/\ calls[c].op = "add" /\ WellFormed(calls[c].startFile)
           /\ \E k \in DOMAIN calls[c].recs : calls[c].recs[k] = "a"
           /\ calls[d].op = "remove" /\ calls[d].m = Fn("data", "a", "")
           /\ Ended(d)
           /\ calls[c].fault = "none" /\ calls[d].fault = "none" /\ faults = 0)
          => /\ calls[d].fut.kind = "count" /\ calls[d].fut.n >= 1
             /\ ~HasText(calls[d].endFile, "a")

C7_Witness ==
  /\ Len(calls) >= 2
  /\ calls[1].op = "add" /\ calls[1].recs = <<"b", "a">> /\ calls[1].task = "ok"
  /\ calls[2].op = "remove" /\ calls[2].m = Fn("data", "a", "")
  /\ calls[2].waited /\ calls[2].task = "ok"
  /\ calls[2].fut.kind = "count"

\* the entries add appends: ids[i] with recs[i]
NewEntries(ids, recs) == [i \in DOMAIN recs |-> Entry(ids[i], recs[i])]

\* C8: an add of n >= 1 records that meets no filesystem fault resolves with
\* n ids, ids[i] naming records[i]; afterwards the store is one well-formed
\* object holding the previous entries, unchanged and in order, followed by
\* the new entries in input order.
C8_Add ==
  \A c \in DOMAIN calls :
    (calls[c].op = "add" /\ calls[c].task = "ok" /\ calls[c].fault = "none"
     /\ WellFormed(calls[c].startFile))
    => /\ calls[c].fut.st = "resolved" /\ calls[c].fut.kind = "ids"
       /\ Len(calls[c].fut.ids) = Len(calls[c].recs)
       /\ WellFormed(calls[c].endFile)
       /\ Entries(calls[c].endFile) =
            Entries(calls[c].startFile) \o NewEntries(calls[c].fut.ids, calls[c].recs)

C8_Witness ==
  \E c \in DOMAIN calls :
    /\ calls[c].op = "add" /\ calls[c].task = "ok" /\ calls[c].fault = "none"
    /\ calls[c].recs = <<"b", "a">>
    /\ Len(Entries(calls[c].startFile)) = 0
    /\ \E d \in DOMAIN calls :
         /\ d > c /\ calls[d].op = "add" /\ calls[d].task = "ok"
         /\ Len(Entries(calls[d].endFile)) = 3

\* C9: add([]) is rejected with INVALID_PARAMS and an add whose serializer
\* throws with SERIALIZATION_ERROR, without a task being submitted and
\* without touching the files, the queue or the running task.
C9_AddRejectsEarly ==
  /\ [](\A c \in DOMAIN calls :
          (calls[c].op = "add" /\ AddRejection(calls[c].recs) # "")
          => /\ calls[c].task = "none"
             /\ calls[c].fut.st = "rejected"
             /\ calls[c].fut.err = AddRejection(calls[c].recs)
             /\ \A k \in DOMAIN queue : queue[k] # c
             /\ \A k \in DOMAIN running : running[k].call # c)
  /\ [][(/\ Len(calls') = Len(calls) + 1
         /\ calls'[Len(calls')].op = "add"
         /\ AddRejection(calls'[Len(calls')].recs) # "")
        => /\ UNCHANGED <<file, temp, queue, isLocked, running, nextId, startOrder>>
           /\ SubSeq(calls', 1, Len(calls)) = calls]_vars

C9_Witness ==
  /\ Len(calls) = 3
  /\ calls[3].op = "add" /\ calls[3].fut.err = "SERIALIZATION_ERROR"
  /\ calls[2].op = "add" /\ calls[2].fut.err = "INVALID_PARAMS"
  /\ calls[1].task = "running"

\* C10: a remove that meets no filesystem fault keeps exactly the entries
\* its matcher does not accept, with their ids and data and in the same
\* order, and resolves with the number removed, or with undefined (never 0)
\* when nothing matched.
C10_Remove ==
  \A c \in DOMAIN calls :
    (calls[c].op = "remove" /\ calls[c].task = "ok" /\ calls[c].fault = "none")
    => LET before == Entries(calls[c].startFile)
           Kept(e) == Match(calls[c].m, e) # "yes"
           after  == SelectSeq(before, Kept)
           k      == Len(before) - Len(after)
       IN /\ WellFormed(calls[c].endFile)
          /\ Entries(calls[c].endFile) = after
          /\ calls[c].fut.st = "resolved"
          /\ calls[c].fut.kind = (IF k = 0 THEN "undefined" ELSE "count")
          /\ calls[c].fut.n = k

\* the entries update(m) makes of the entries es, and how many it replaced
Updated(es, m) ==
  [i \in 1..Len(es) |->
     IF Modify(m, es[i]) = "undefined" THEN es[i]
     ELSE Entry(es[i].id, Modify(m, es[i]))]
Replaced(es, m) ==
  Cardinality({i \in 1..Len(es) : Modify(m, es[i]) # "undefined"})

C12_EmptyMutation ==
  \A c \in DOMAIN calls :
    (/\ calls[c].op \in {"update", "remove"}
     /\ calls[c].m.kind = "none"
     /\ calls[c].task = "ok" /\ calls[c].fault = "none"
     /\ WellFormed(calls[c].startFile))
    => calls[c].endFile = calls[c].startFile

\* ------------------------------------------------------------ find claims
Min(a, b) == IF a < b THEN a ELSE b

\* the entries of the store a find call searched that its matcher accepts,
\* in file order, and the places they have in the file
Matching(c) ==
  LET Yes(e) == Match(calls[c].m, e) = "yes"
  IN SelectSeq(Entries(calls[c].startFile), Yes)
MatchPlace(c, k) ==
  LET es == Entries(calls[c].startFile)
  IN CHOOSE i \in 1..Len(es) :
       /\ Match(calls[c].m, es[i]) = "yes"
       /\ Cardinality({j \in 1..i : Match(calls[c].m, es[j]) = "yes"}) = k

\* what a resolved find gave: the list, empty for undefined
Retained(c) == IF calls[c].fut.kind = "found" THEN calls[c].fut.entries ELSE <<>>
Found(c) ==
  /\ calls[c].op = "find" /\ calls[c].task = "ok"
  /\ calls[c].fut.st = "resolved"
Skip(c) == UsableOffset(calls[c].opts.offset)

C16_Absent ==
  \A c \in DOMAIN calls :
    calls[c].op = "find" =>
      /\ calls[c].opts.limit <= 0
           => /\ calls[c].fut.st = "resolved" /\ calls[c].fut.kind = "undefined"
              /\ calls[c].task = "none"
      /\ Found(c)
           => /\ (calls[c].fut.kind = "undefined") =
                   (Len(Matching(c)) <= Skip(c))
              /\ calls[c].fut.kind = "found" => calls[c].fut.entries # <<>>

\* limit 0 on a missing store file, and a search that retained nothing
C16_Witness ==
  /\ \E c \in DOMAIN calls :
       /\ calls[c].op = "find" /\ calls[c].opts.limit <= 0
       /\ ~calls[c].startFile.present
       /\ calls[c].fut.kind = "undefined"
  /\ \E c \in DOMAIN calls :
       /\ Found(c) /\ calls[c].fut.kind = "undefined"
       /\ Len(Matching(c)) = 2 /\ calls[c].opts.offset = 2

\* C17: a clearAll that meets no filesystem fault succeeds whatever the
\* store file was, missing included: it puts '{}' in the temp file and
\* renames it over the store file, which is then exactly '{}'.
C17_ClearAll ==
  \A c \in DOMAIN calls :
    (calls[c].op = "clearAll" /\ Ended(c) /\ calls[c].fault = "none")
    => /\ calls[c].task = "ok"
       /\ calls[c].renamed
       /\ calls[c].endFile = Content(<<LB, RB>>)
       /\ calls[c].fut.st = "resolved" /\ calls[c].fut.kind = "null"

\* a clearAll that began with the store file missing and created it
C17_Witness ==
  \E c \in DOMAIN calls :
    /\ calls[c].op = "clearAll" /\ calls[c].task = "ok"
    /\ ~calls[c].startFile.present
    /\ calls[c].endFile = Content(<<LB, RB>>)
    /\ file = Content(<<LB, RB>>) /\ ~temp.present

\* ------------------------------------------------------------- round trip
\* call a is an add that stored record number k under the id that the
\* findById call f, begun later, looks up; x is a call that ran in between
Stored(a, k, f) ==
  /\ calls[a].op = "add" /\ calls[a].task = "ok" /\ calls[a].renamed
  /\ WellFormed(calls[a].startFile)
  /\ k \in DOMAIN calls[a].fut.ids
  /\ calls[f].op = "find" /\ calls[f].m.kind = "id"
  /\ calls[f].m.id = calls[a].fut.ids[k]
  /\ Ended(f) /\ Pos(a) < Pos(f)
Between(a, x, f) == Began(x) /\ Pos(a) < Pos(x) /\ Pos(x) < Pos(f)

\* operations that the claim says leave / drop the entry e
Keeps(x, e) ==
  CASE calls[x].op = "remove" -> Match(calls[x].m, e) # "yes"
    [] calls[x].op = "update" -> Modify(calls[x].m, e) = "undefined"
    [] calls[x].op = "clearAll" -> FALSE
    [] OTHER -> TRUE
Drops(x, e) ==
  /\ calls[x].task = "ok"
  /\ \/ calls[x].op = "clearAll"
     \/ calls[x].op = "remove" /\ Match(calls[x].m, e) = "yes"

\* C18: with no filesystem fault, findById(id) for the id an add gave a
\* record returns that record, also after later adds, removes that do not
\* match it and updates that leave it alone, and returns undefined once a
\* remove matching it or a clearAll has succeeded.
C18_RoundTrip ==
  \A a \in DOMAIN calls, f \in DOMAIN calls :
    \A k \in DOMAIN calls[a].recs :
      (faults = 0 /\ Stored(a, k, f)) =>
        LET e == Entry(calls[f].m.id, calls[a].recs[k])
        IN /\ (\A x \in DOMAIN calls : Between(a, x, f) => Keeps(x, e))
                => /\ calls[f].task = "ok"
                   /\ calls[f].fut.kind = "found"
                   /\ calls[f].fut.entries = <<e>>
           /\ (\E x \in DOMAIN calls : Between(a, x, f) /\ Drops(x, e))
                => /\ calls[f].task = "ok"
                   /\ calls[f].fut.kind = "undefined"

\* C19: whenever no operation is executing there is no temp file, whether
\* the last mutation succeeded or failed.
C19_NoTempWhenIdle == (running = <<>>) => ~temp.present

\* C20: a mutating operation whose rename step failed has its future
\* rejected with TEMP_FILE_RENAME_ERROR, not resolved with a success value.
C20_RenameFailureReported ==
  \A c \in DOMAIN calls :
    (calls[c].op \in Mutating /\ calls[c].fault = "rename" /\ Ended(c))
    => /\ calls[c].fut.st = "rejected"
       /\ calls[c].fut.err = "TEMP_FILE_RENAME_ERROR"

\* C21: an add, remove or update whose write to the temp file failed has its
\* future rejected with TEMP_FILE_WRITE_ERROR, did not rename, and left the
\* store file as it was.
C21_WriteFailureReported ==
  \A c \in DOMAIN calls :
    (/\ calls[c].op \in {"add", "remove", "update"}
     /\ calls[c].fault = "write" /\ Ended(c))
    => /\ calls[c].fut.st = "rejected"
       /\ calls[c].fut.err = "TEMP_FILE_WRITE_ERROR"
       /\ ~calls[c].renamed
       /\ calls[c].endFile = calls[c].startFile

\* some submitted operation has not settled its caller's future, or the
\* queue is processing
Busy ==
  \/ isLocked
  \/ \E c \in DOMAIN calls : Submitted(c) /\ calls[c].fut.st = "pending"

\* C22: in a run without filesystem faults, whenever an operation is
\* unsettled or the queue is processing, eventually every submitted
\* operation has settled its caller's future and the queue is idle and
\* empty.
C22_Liveness == Busy ~> (faults > 0 \/ (~Busy /\ queue = <<>>))

\* the task of call c was the last one to begin and has ended, and the
\* handle is idle
JustEnded(c) ==
  /\ running = <<>> /\ startOrder # <<>>
  /\ startOrder[Len(startOrder)] = c /\ Ended(c)

\* C23: an add, remove, update or find whose task began with the store file
\* missing rejects with MISSING_FILE and does not create the store file, and
\* no temp file is left when it has ended.
C23_MissingFile ==
  \A c \in DOMAIN calls :
    (/\ calls[c].op \in {"add", "remove", "update", "find"}
     /\ Ended(c) /\ ~calls[c].startFile.present)
    => /\ calls[c].fut.st = "rejected" /\ calls[c].fut.err = "MISSING_FILE"
       /\ ~calls[c].endFile.present
       /\ JustEnded(c) => ~temp.present

\* the callback of call c throws on an entry of the store it began with,
\* and what it throws
Throws(c) ==
  \E k \in DOMAIN Entries(calls[c].startFile) :
    LET e == Entries(calls[c].startFile)[k]
    IN IF calls[c].op = "update" THEN Modify(calls[c].m, e) = "throw"
       ELSE Match(calls[c].m, e) = "throw"
ThrownBy(c) == IF calls[c].op = "update" THEN "ModifierError" ELSE "MatcherError"
TimesBegun(c) == Cardinality({k \in DOMAIN startOrder : startOrder[k] = c})

\* C24: a remove, update or find (default options) on a well-formed store
\* whose matcher or modifier throws on some entry, with no filesystem
\* fault, fails with exactly the thrown value, leaves the store file as it
\* was, ran once, and (a mutation) leaves no temp file.
C24_CallbackErrors ==
  \A c \in DOMAIN calls :
    (/\ calls[c].op \in {"remove", "update", "find"}
     /\ calls[c].opts = NoOpts
     /\ Ended(c) /\ calls[c].fault = "none"
     /\ WellFormed(calls[c].startFile) /\ Throws(c))
    => /\ calls[c].task = "failed"
       /\ calls[c].fut.st = "rejected" /\ calls[c].fut.err = ThrownBy(c)
       /\ calls[c].endFile = calls[c].startFile
       /\ TimesBegun(c) = 1
       /\ (JustEnded(c) /\ calls[c].op # "find") => ~temp.present

\* an update whose modifier threw, and a find whose matcher threw
C24_Witness ==
  /\ \E c \in DOMAIN calls :
       /\ calls[c].op = "update" /\ Throws(c) /\ JustEnded(c)
       /\ calls[c].fut.err = "ModifierError"
  /\ \E c \in DOMAIN calls :
       /\ calls[c].op = "find" /\ Throws(c) /\ Ended(c)
       /\ calls[c].fut.err = "MatcherError"

\* ------------------------------------------------------------ construction
\* C25: a second handle is never constructed on a path that already has
\* one (the constructor throws INVALID_PARAMS instead).
C25_ExclusiveOwnership == Handles <= 1

\* C26: after a construction with overwrite the store file is exactly '{}'
\* whatever the path held; without overwrite an existing file is left as it
\* was and a missing one is created as '{}'.
C26_Construction ==
  \A c \in DOMAIN calls :
    calls[c].op = "new" =>
      /\ calls[c].endFile.present
      /\ calls[c].m.kind = "overwrite" => calls[c].endFile = Content(<<LB, RB>>)
      /\ (calls[c].m.kind = "keep" /\ calls[c].startFile.present)
           => calls[c].endFile = calls[c].startFile
      /\ (calls[c].m.kind = "keep" /\ ~calls[c].startFile.present)
           => calls[c].endFile = Content(<<LB, RB>>)
      /\ (Len(calls) = 1 /\ faults = 0) => file = calls[c].endFile

\* a file with entries emptied by a construction with overwrite
C26_Witness ==
  \E c \in DOMAIN calls :
    /\ calls[c].op = "new" /\ calls[c].m.kind = "overwrite"
    /\ Entries(calls[c].startFile) # <<>>
    /\ calls[c].endFile = Content(<<LB, RB>>)
    /\ c = Len(calls) /\ file = Content(<<LB, RB>>)

\* ---------------------------------------------------------------- by id
HasId(es, id) == \E k \in DOMAIN es : es[k].id = id

\* C27: a removeById / updateById that succeeds on a well-formed store
\* returns true exactly when the store held an entry with that id, and
\* undefined otherwise; removeById leaves the other entries and only them,
\* updateById leaves every entry in place with only that entry's data
\* replaced.
C27_ById ==
  \A c \in DOMAIN calls :
    (/\ calls[c].op \in {"remove", "update"} /\ calls[c].m.kind = "id"
     /\ calls[c].task = "ok" /\ calls[c].fault = "none"
     /\ WellFormed(calls[c].startFile))
    => LET before == Entries(calls[c].startFile)
           id == calls[c].m.id
           Other(e) == e.id # id
       IN /\ ByIdValue(calls[c].fut) =
               (IF HasId(before, id) THEN "true" ELSE "undefined")
          /\ WellFormed(calls[c].endFile)
          /\ calls[c].op = "remove"
               => Entries(calls[c].endFile) = SelectSeq(before, Other)
          /\ calls[c].op = "update"
               => Entries(calls[c].endFile) =
                    [k \in DOMAIN before |->
                       IF before[k].id = id THEN Entry(id, calls[c].m.v)
                       ELSE before[k]]

\* ---------------------------------------------------------------- queue
\* the write streams open on the temp path that have not finished: the one
\* of the running rewrite, until its end callback has run, and those a
\* failed task left ending
Rewrites == {"add", "remove", "update"}
Writers ==
  lingering +
  Cardinality({i \in DOMAIN running :
                 /\ calls[running[i].call].op \in Rewrites
                 /\ running[i].pc \in {"read", "flush", "cleanup", "hung"}})

\* a task begins (and so touches the store file or the temp file) only when
\* every call submitted before it has ended
BeginsAfterEarlier ==
  \A c \in DOMAIN calls :
    Began(c) => \A b \in 1..(c - 1) : Submitted(b) => Ended(b)

\* C28: nothing is read, written or renamed for a call until every call
\* submitted before it has ended, and at no time is more than one write
\* stream on the temp path unfinished.
C28_PendingDoesNoIO == BeginsAfterEarlier /\ Writers <= 1

\* C29: a task submitted while the queue is idle has begun when addTask
\* returns; whenever no task is executing the pending list is empty and the
\* lock is clear; at most one processing loop is active.
C29_IdleStart ==
  /\ \A c \in DOMAIN calls : (Submitted(c) /\ ~calls[c].waited) => Began(c)
  /\ (running = <<>>) => (queue = <<>> /\ ~isLocked)
  /\ Len(running) <= 1

\* a task that began within its addTask call, and a handle idle again
\* after a failed task while a later call had been waiting
C29_Witness ==
  \E b \in DOMAIN calls, c \in DOMAIN calls :
    /\ b < c
    /\ ~calls[b].waited /\ calls[b].task = "failed"
    /\ calls[c].waited /\ Ended(c)
    /\ running = <<>> /\ queue = <<>> /\ ~isLocked

\* the promise addTask returned for call c and the caller's future agree
\* with where the task of c is
Routing ==
  \A c \in DOMAIN calls :
    /\ TimesBegun(c) = (IF Began(c) THEN 1 ELSE 0)
    /\ (calls[c].task = "running")
         = (\E i \in DOMAIN running : running[i].call = c)
    /\ (calls[c].task = "queued") = (\E k \in DOMAIN queue : queue[k] = c)
    /\ Ended(c) =>
         IF calls[c].op = "add" THEN calls[c].fut.st # "pending"
         ELSE calls[c].fut.st =
                (IF calls[c].task = "ok" THEN "resolved" ELSE "rejected")

\* a settled promise stays as it was settled
SettledOnce ==
  \A c \in DOMAIN calls :
    /\ Ended(c) => calls'[c].task = calls[c].task
    /\ calls[c].fut.st # "pending" => calls'[c].fut = calls[c].fut

\* C30: the function of every submitted task is invoked once; the promise
\* returned for it is settled once, by the outcome of that task (fulfilled
\* when it returned, rejected when it threw), and is not pending once the
\* task has finished; the caller's future of remove, update, clearAll and
\* find follows it.
C30_ResultRouting == []Routing /\ [][SettledOnce]_vars

\* of two calls made back to back, the first succeeded and the second
\* failed, each future settled accordingly
C30_Witness ==
  \E b \in DOMAIN calls, c \in DOMAIN calls :
    /\ b < c /\ calls[c].waited
    /\ calls[b].task = "ok" /\ calls[b].fut.st = "resolved"
    /\ calls[b].op = "find" /\ calls[b].fut.kind = "found"
    /\ calls[c].task = "failed" /\ calls[c].fut.st = "rejected"
    /\ calls[c].fut.err = "ModifierError"

\* ------------------------------------------------------ identifier stability
\* the ids of the pairs written in f, in file order
Ids(f) ==
  LET pairs == SelectSeq(f.toks, LAMBDA t : t.k = "entry")
  IN [k \in DOMAIN pairs |-> pairs[k].id]
IdSet(f) == {Ids(f)[k] : k \in DOMAIN Ids(f)}
Distinct(seq) == \A j \in DOMAIN seq, k \in DOMAIN seq : seq[j] = seq[k] => j = k
Place(seq, x) == CHOOSE k \in DOMAIN seq : seq[k] = x

\* ids present before and after are in the same relative order
SameOrder(old, new) ==
  \A x \in {old[k] : k \in DOMAIN old}, y \in {old[k] : k \in DOMAIN old} :
    (/\ Place(old, x) < Place(old, y)
     /\ \E k \in DOMAIN new : new[k] = x
     /\ \E k \in DOMAIN new : new[k] = y)
    => Place(new, x) < Place(new, y)

\* the ids a remove with matcher m leaves of the pairs of f
RECURSIVE KeptIds(_, _)
KeptIds(toks, m) ==
  IF toks = <<>> THEN <<>>
  ELSE LET t == Head(toks) IN
    IF t.k = "entry" /\ Match(m, Entry(t.id, JsonValue(t.json))) # "yes"
    THEN <<t.id>> \o KeptIds(Tail(toks), m)
    ELSE KeptIds(Tail(toks), m)

\* the ids in the store and the ids handed out, in every state
IdsDistinct ==
  /\ Distinct(Ids(file))
  /\ \A x \in IdSet(file) : x < nextId
  /\ \A c \in DOMAIN calls :
       (calls[c].op = "add" /\ calls[c].fut.st = "resolved") =>
         /\ Distinct(calls[c].fut.ids)
         /\ \A k \in DOMAIN calls[c].fut.ids :
              /\ calls[c].fut.ids[k] < nextId
              /\ \A b \in DOMAIN calls :
                   (Began(b) /\ Pos(b) <= Pos(c)) =>
                     calls[c].fut.ids[k] \notin IdSet(calls[b].startFile)

\* what one step does to the ids in the store
IdsStay ==
  /\ SameOrder(Ids(file), Ids(file'))
  /\ \A c \in DOMAIN calls :
       (/\ ~calls[c].renamed /\ calls'[c].renamed
        /\ calls[c].fault = "none" /\ faults = 0) =>
         CASE calls[c].op = "update" -> Ids(file') = Ids(file)
           [] calls[c].op = "remove" ->
                Ids(file') = KeptIds(file.toks, calls[c].m)
           [] calls[c].op = "add" ->
                Ids(file') = Ids(file) \o calls'[c].fut.ids
           [] OTHER -> Ids(file') = <<>>

\* C31: the ids written in the store file are pairwise distinct in every
\* state; every step leaves the ids that stay in the file in their relative
\* order; with no filesystem fault an update leaves the sequence of ids as
\* it was, a remove leaves the ids of the pairs it did not match, an add
\* appends the ids it hands out; and an id handed out by add was in no
\* store an earlier operation started from.
C31_IdStability == []IdsDistinct /\ [][IdsStay]_vars

\* an update left the two ids of the store in place and an add after it
\* appended the id it handed out
C31_Witness ==
  \E u \in DOMAIN calls, a \in DOMAIN calls :
    /\ faults = 0 /\ running = <<>>
    /\ calls[u].op = "update" /\ calls[u].renamed
    /\ Len(Ids(calls[u].startFile)) = 2
    /\ Ids(calls[u].endFile) = Ids(calls[u].startFile)
    /\ calls[a].op = "add" /\ calls[a].renamed /\ Pos(u) < Pos(a)
    /\ Len(calls[a].fut.ids) = 1
    /\ Ids(file) = Ids(calls[u].startFile) \o calls[a].fut.ids

\* ------------------------------------------------------------- find reads only
\* the call made in this step, if one was made
CalledNow(c) == c = Len(calls') /\ Len(calls') = Len(calls) + 1

\* the task of call c, which is executing, takes a step
TaskSteps(c) ==
  /\ c \in DOMAIN calls
  /\ \E i \in DOMAIN running : running[i].call = c
  /\ running' # running

\* the task that begins in this step, when the task before it has ended
BeginsNow(d) ==
  /\ startOrder' # startOrder
  /\ d = startOrder'[Len(startOrder')]

\* a step of find: the call itself, or a step of its task
FindReadsOnly ==
  \A c \in DOMAIN calls' :
    (calls'[c].op = "find" /\ (CalledNow(c) \/ TaskSteps(c))) =>
      /\ file' = file
      /\ \/ temp' = temp
         \/ \E d \in DOMAIN calls' :
              /\ d # c /\ BeginsNow(d) /\ OpensTemp(calls'[d].op)
              /\ temp' = Content(<<>>)

\* C32: neither the call of find / findById nor any step of its task
\* changes the store file; the temp file is as it was after each of these
\* steps, except that the task taken from the queue when find's task ends
\* may open it; a find that has ended ended on the store it started from.
C32_FindReadOnly ==
  /\ [](\A c \in DOMAIN calls :
         (calls[c].op = "find" /\ Ended(c)) =>
            calls[c].endFile = calls[c].startFile)
  /\ [][FindReadsOnly]_vars

\* finds that ended beside a temp file an earlier operation left: one
\* resolved with entries after stopping early, one failed
C32_Witness ==
  \E b \in DOMAIN calls, c \in DOMAIN calls :
    /\ temp.present /\ running = <<>>
    /\ calls[b].op = "find" /\ calls[b].task = "ok"
    /\ calls[b].fut.kind = "found" /\ calls[b].scan.destroyed
    /\ calls[c].op = "find" /\ calls[c].task = "failed"

\* ------------------------------------------------------- batch equivalence
\* the records call c was asked to add
Args(c) == IF calls[c].m.kind = "one" THEN <<calls[c].m.d>> ELSE calls[c].recs

\* the calls whose rewrite of the store has completed
Rewritten == {c \in DOMAIN calls : calls[c].renamed}

\* the records of the completed calls 1..n, in call order
RECURSIVE ArgsUpTo(_)
ArgsUpTo(n) ==
  IF n = 0 THEN <<>>
  ELSE ArgsUpTo(n - 1) \o (IF n \in Rewritten THEN Args(n) ELSE <<>>)

\* the store the first completed call started from
StartStore == calls[CHOOSE c \in Rewritten : \A b \in Rewritten : c <= b].startFile

\* the store one add(xs) leaves of the store f
BatchOf(f, xs) == Content(AddPass(xs, FreshIds(nextId, Len(xs)), f))

DataOf(es) == [k \in DOMAIN es |-> es[k].data]

\* C33: after any number of addOne calls, and after one add, the store is
\* a well-formed object whose record values are, in order, those that a
\* single add of all the records given so far leaves of the starting
\* store; every completed call rewrote the whole store once (N rewrites
\* for N addOne calls, one for the batch), and the id addOne returns names
\* its record in the store.
C33_BatchEquivalence ==
  /\ Rewritten # {} =>
       LET xs == ArgsUpTo(Len(calls))
       IN /\ WellFormed(file)
          /\ WellFormed(BatchOf(StartStore, xs))
          /\ DataOf(Entries(file)) = DataOf(Entries(BatchOf(StartStore, xs)))
  /\ \A c \in Rewritten :
       /\ DataOf(Entries(calls[c].endFile))
            = DataOf(Entries(calls[c].startFile)) \o Args(c)
       /\ calls[c].m.kind = "one" =>
            \E k \in DOMAIN Entries(file) :
              Entries(file)[k] = Entry(AddOneValue(calls[c].fut), calls[c].m.d)
  /\ running = <<>> =>
       Cardinality(Rewritten) = Cardinality({c \in DOMAIN calls : Submitted(c)})

\* three addOne calls have completed on a store of two entries
C33_Witness ==
  /\ running = <<>> /\ Len(calls) = MaxBatch
  /\ Cardinality(Rewritten) = MaxBatch
  /\ \A c \in DOMAIN calls : calls[c].m.kind = "one"
  /\ Len(Entries(StartStore)) = 2
  /\ DataOf(Entries(file)) = <<"a", "b", "b", "a", "a">>
====
